---- MODULE Spec2Model ----
(***************************************************************************)
(* Client application of Code Guardian: the AuthProvider context, the      *)
(* Login form and the Dashboard page, as one state machine.                *)
(*                                                                         *)
(* Text that the code inspects character by character (username, password, *)
(* mobile number, editor code, the JSON text kept in local storage) is a   *)
(* sequence of one-character strings; text that is only copied around      *)
(* (languages, optimized code, reports, notifications) is a TLA+ string.   *)
(* One action is one browser task: an event handler or the handling of a   *)
(* settled fetch, together with the continuations and effects React runs   *)
(* before the next event.  A component that is not on the current route is *)
(* unmounted and its state variables hold their initial values.            *)
(*                                                                         *)
(* Not modelled: Login's `errors` display state (lastOp records what       *)
(* validateForm returned), Dashboard's includeCli and copied, and the      *)
(* language, code and include_cli fields of the /optimize body.            *)
(***************************************************************************)
EXTENDS Integers, Sequences, FiniteSets, TLC

VARIABLES
    page,          \* current route: "/" (Login) or "/dashboard" (Dashboard)
    mounted,       \* TRUE once the AuthProvider mount effect has run
    user,          \* AuthProvider state `user` (Null or a user record)
    storage,       \* localStorage['codeOptimizer_user'] as text, NoItem if absent
    authReqs,      \* /login and /register requests in flight, in issue order
    isLogin,       \* Login state
    username,      \* Login state
    password,      \* Login state
    mobileNumber,  \* Login state
    language,      \* Dashboard state
    code,          \* Dashboard state
    optimizedCode, \* Dashboard state
    flawReport,    \* Dashboard state
    isLoading,     \* Dashboard state
    history,       \* Dashboard state
    optReqs,       \* /optimize requests in flight, in issue order
    histReqs,      \* /history/{id} requests in flight, in issue order
    toast,         \* notification raised by the last step (NoToast if none)
    lastOp,        \* the handler that ran last, with its argument
    returned,      \* history variable: user record of the latest successful
                   \* /login or /register response since the last logout
    loggedOut,     \* history variable: logout() has run and no login or
                   \* register has been submitted since
    entries,       \* back end: number of history entries stored for each user
    histSnaps,     \* back end: the body prepared for each request of histReqs
    created        \* history variable: the entry written by the latest OK
                   \* /optimize of this Dashboard, Null once a history
                   \* fetch has failed since

vars == <<page, mounted, user, storage, authReqs, isLogin, username, password,
          mobileNumber, language, code, optimizedCode, flawReport,
          isLoading, history, optReqs, histReqs, toast, lastOp, returned,
          loggedOut, entries, histSnaps, created>>

authVars  == <<user, storage>>
loginVars == <<isLogin, username, password, mobileNumber>>
dashVars  == <<language, code, optimizedCode, flawReport, isLoading, history>>
serverVars == <<entries, histSnaps, created>>

(***************************************************************************)
(* Bounds of the model.                                                    *)
(***************************************************************************)
MaxAuthInFlight == 2
MaxOptInFlight == 2
MaxHistInFlight == 2
MaxEntries == 2

(***************************************************************************)
(* JavaScript values.                                                      *)
(***************************************************************************)
Null == [null |-> TRUE]
Undefined == "<undefined>"
NoItem == <<>>
NoToast == "<none>"

\* x || '' on a string-or-undefined value
OrEmpty(x) == IF x = Undefined \/ x = "" THEN "" ELSE x

IsSpace(c) == c = " "
IsDigit(c) == c \in {"0", "1", "2", "3", "4", "5", "6", "7", "8", "9"}

RECURSIVE TrimStart(_)
TrimStart(s) ==
    IF s = <<>> THEN <<>>
    ELSE IF IsSpace(Head(s)) THEN TrimStart(Tail(s)) ELSE s

RECURSIVE TrimEnd(_)
TrimEnd(s) ==
    IF s = <<>> THEN <<>>
    ELSE IF IsSpace(s[Len(s)]) THEN TrimEnd(SubSeq(s, 1, Len(s) - 1)) ELSE s

\* String.prototype.trim
Trim(s) == TrimEnd(TrimStart(s))

\* s.replace(/\D/g, '')
RECURSIVE StripNonDigits(_)
StripNonDigits(s) ==
    IF s = <<>> THEN <<>>
    ELSE IF IsDigit(Head(s)) THEN <<Head(s)>> \o StripNonDigits(Tail(s))
         ELSE StripNonDigits(Tail(s))

\* /^\d{10}$/.test(s)
IsTenDigits(s) == Len(s) = 10 /\ \A i \in 1..Len(s) : IsDigit(s[i])

DigitOf(n) == CASE n = 0 -> "0" [] n = 1 -> "1" [] n = 2 -> "2" [] n = 3 -> "3"
NumberOf(d) == CASE d = "0" -> 0 [] d = "1" -> 1 [] d = "2" -> 2 [] d = "3" -> 3

\* JSON.stringify(userData): the text of {"id":<id>,"username":"<username>"}
JSONstringify(u) ==
    <<"{", "id", ":", DigitOf(u.id), ",", "username", ":">> \o u.username \o <<"}">>

\* JSON.parse(storedUser)
JSONparse(t) ==
    [id |-> NumberOf(t[4]), username |-> SubSeq(t, 8, Len(t) - 1)]

\* s without its i-th element
RemoveAt(s, i) == SubSeq(s, 1, i - 1) \o SubSeq(s, i + 1, Len(s))

(***************************************************************************)
(* Inputs: what the user can type and what the server can answer.          *)
(***************************************************************************)
Usernames == {<<"a", "b">>, <<" ", "a", " ">>}
Passwords == {<<"a", "b", "c", "d", "e">>, <<"a", "b", "c", "d", "e", "f">>}
Mobiles == {<<"1", "2", "3", "4", "-", "5", "6", "7", "8", "9">>}

\* user records a /login or /register response can carry
Users == {[id |-> 1, username |-> <<"a">>],
          [id |-> 2, username |-> <<"a", "b", "c">>]}

\* how a /login or /register fetch can fail: a non-OK response whose body has
\* a detail, one whose body has none, or a rejected fetch
AuthFailures == {[kind |-> "http", detail |-> "Invalid credentials"],
                 [kind |-> "http", detail |-> Undefined],
                 [kind |-> "network", detail |-> Undefined]}

\* error.message of a failed attempt
AuthErrorMessage(kind, f) ==
    IF f.kind = "network" THEN "Failed to fetch"
    ELSE IF f.detail = Undefined \/ f.detail = ""
         THEN (IF kind = "login" THEN "Login failed" ELSE "Registration failed")
         ELSE f.detail

(***************************************************************************)
(* Initial component state.                                                *)
(***************************************************************************)
NoErrors == [username |-> Undefined, password |-> Undefined, mobile |-> Undefined]

LoginInit(l, u, p, m) ==
    /\ l = TRUE
    /\ u = <<>>
    /\ p = <<>>
    /\ m = <<>>

DashboardInit(l, c, o, f, ld, h) ==
    /\ l = "python"
    /\ c = <<>>
    /\ o = ""
    /\ f = ""
    /\ ld = FALSE
    /\ h = <<>>

\* the ids of the registered users
UserIds == {u.id : u \in Users}

Init ==
    /\ page = "/"
    /\ mounted = FALSE
    /\ user = Null
    /\ storage = NoItem
    /\ authReqs = <<>>
    /\ LoginInit(isLogin, username, password, mobileNumber)
    /\ DashboardInit(language, code, optimizedCode, flawReport, isLoading, history)
    /\ optReqs = <<>>
    /\ histReqs = <<>>
    /\ toast = NoToast
    /\ lastOp = [op |-> "init"]
    /\ returned = Null
    /\ loggedOut = FALSE
    /\ entries = [id \in UserIds |-> 0]
    /\ histSnaps = <<>>
    /\ created = Null

(***************************************************************************)
(* Shared pieces.                                                          *)
(***************************************************************************)
\* user?.id
UserId(u) == IF u = Null THEN 0 ELSE u.id

\* fetchHistory as called with `u` in its closure: returns without a request
\* when !user?.id, otherwise one GET /history/{id} goes in flight
fetchHistory(reqs, u) ==
    IF UserId(u) = 0 THEN reqs
    ELSE Append(reqs, [uid |-> UserId(u)])

(***************************************************************************)
(* Login form.                                                             *)
(***************************************************************************)
\* validateForm with the password bound off by one
validateFormShortPassword(u, p, l, m) ==
    [username |-> IF Trim(u) = <<>> THEN "Username is required"
                  ELSE IF Len(u) < 3 THEN "Username must be at least 3 characters"
                  ELSE Undefined,
     password |-> IF Trim(p) = <<>> THEN "Password is required"
                  ELSE IF Len(p) < 5 THEN "Password must be at least 6 characters"
                  ELSE Undefined,
     mobile   |-> IF ~l /\ Trim(m) # <<>> /\ ~IsTenDigits(StripNonDigits(m))
                  THEN "Please enter a valid 10-digit mobile number"
                  ELSE Undefined]

validateForm(u, p, l, m) ==
    [username |-> IF Trim(u) = <<>> THEN "Username is required"
                  ELSE IF Len(u) < 3 THEN "Username must be at least 3 characters"
                  ELSE Undefined,
     password |-> IF Trim(p) = <<>> THEN "Password is required"
                  ELSE IF Len(p) < 6 THEN "Password must be at least 6 characters"
                  ELSE Undefined,
     mobile   |-> IF ~l /\ Trim(m) # <<>> /\ ~IsTenDigits(StripNonDigits(m))
                  THEN "Please enter a valid 10-digit mobile number"
                  ELSE Undefined]

\* Object.keys(newErrors).length === 0
IsValid(e) == e = NoErrors

\* the body handleSubmit hands to login() or register()
SubmitRequest(u, p, l, m) ==
    IF l THEN [kind |-> "login", username |-> Trim(u), password |-> p,
               mobile_number |-> Undefined]
    ELSE [kind |-> "register", username |-> Trim(u), password |-> p,
          mobile_number |-> StripNonDigits(m)]

OnLoginPage == mounted /\ page = "/"

SetIsLogin(b) ==
    /\ OnLoginPage
    /\ isLogin' = b
    /\ toast' = NoToast
    /\ lastOp' = [op |-> "edit"]
    /\ UNCHANGED <<page, mounted, authVars, authReqs, username, password,
                   mobileNumber, dashVars, optReqs, histReqs, returned,
                   loggedOut>>

SetUsername(v) ==
    /\ OnLoginPage
    /\ username' = v
    /\ toast' = NoToast
    /\ lastOp' = [op |-> "edit"]
    /\ UNCHANGED <<page, mounted, authVars, authReqs, isLogin, password,
                   mobileNumber, dashVars, optReqs, histReqs, returned,
                   loggedOut>>

SetPassword(v) ==
    /\ OnLoginPage
    /\ password' = v
    /\ toast' = NoToast
    /\ lastOp' = [op |-> "edit"]
    /\ UNCHANGED <<page, mounted, authVars, authReqs, isLogin, username,
                   mobileNumber, dashVars, optReqs, histReqs, returned,
                   loggedOut>>

SetMobileNumber(v) ==
    /\ OnLoginPage
    /\ ~isLogin
    /\ mobileNumber' = v
    /\ toast' = NoToast
    /\ lastOp' = [op |-> "edit"]
    /\ UNCHANGED <<page, mounted, authVars, authReqs, isLogin, username,
                   password, dashVars, optReqs, histReqs, returned,
                   loggedOut>>

\* handleSubmit up to the await: validateForm, then login() or register()
\* up to its fetch
handleSubmit ==
    /\ OnLoginPage
    /\ IF IsValid(validateForm(username, password, isLogin, mobileNumber))
       THEN /\ Len(authReqs) < MaxAuthInFlight
            /\ authReqs' = Append(authReqs,
                   SubmitRequest(username, password, isLogin, mobileNumber))
            /\ loggedOut' = FALSE
       ELSE UNCHANGED <<authReqs, loggedOut>>
    /\ toast' = NoToast
    /\ lastOp' = [op |-> "handleSubmit",
                  errors |-> validateForm(username, password, isLogin, mobileNumber)]
    /\ UNCHANGED <<page, mounted, authVars, isLogin, username, password,
                   mobileNumber, dashVars, optReqs, histReqs, returned>>

(***************************************************************************)
(* AuthProvider.                                                           *)
(***************************************************************************)
\* register() without the auto login after an OK response: only login() sets
\* the user and caches the identity
AuthResolveOkRegisterNoLogin(i, data) ==
    /\ i \in 1..Len(authReqs)
    /\ IF authReqs[i].kind = "login"
       THEN /\ user' = data
            /\ storage' = JSONstringify(data)
       ELSE UNCHANGED <<user, storage>>
    /\ returned' = data
    /\ toast' = IF authReqs[i].kind = "login" THEN "Login successful!"
                ELSE "Registration successful!"
    /\ authReqs' = RemoveAt(authReqs, i)
    /\ page' = "/dashboard"
    /\ IF page = "/"
       THEN /\ LoginInit(isLogin', username', password', mobileNumber')
            /\ DashboardInit(language', code', optimizedCode', flawReport',
                             isLoading', history')
            /\ histReqs' = fetchHistory(histReqs, user')
       ELSE /\ UNCHANGED <<loginVars, dashVars>>
            /\ histReqs' = IF UserId(user') # UserId(user)
                           THEN fetchHistory(histReqs, user')
                           ELSE histReqs
    /\ Len(histReqs') <= MaxHistInFlight
    /\ lastOp' = [op |-> "authResponse", kind |-> authReqs[i].kind, ok |-> TRUE]
    /\ UNCHANGED <<mounted, optReqs, loggedOut>>

\* the i-th request settles with an OK response carrying `data`: login() or
\* register() after the await, then handleSubmit's navigate('/dashboard');
\* a Dashboard that mounts or sees user?.id change runs its fetchHistory effect
AuthResolveOk(i, data) ==
    /\ i \in 1..Len(authReqs)
    /\ user' = data
    /\ storage' = JSONstringify(data)
    /\ returned' = data
    /\ toast' = IF authReqs[i].kind = "login" THEN "Login successful!"
                ELSE "Registration successful!"
    /\ authReqs' = RemoveAt(authReqs, i)
    /\ page' = "/dashboard"
    /\ IF page = "/"
       THEN /\ LoginInit(isLogin', username', password', mobileNumber')
            /\ DashboardInit(language', code', optimizedCode', flawReport',
                             isLoading', history')
            /\ histReqs' = fetchHistory(histReqs, data)
       ELSE /\ UNCHANGED <<loginVars, dashVars>>
            /\ histReqs' = IF UserId(data) # UserId(user)
                           THEN fetchHistory(histReqs, data)
                           ELSE histReqs
    /\ Len(histReqs') <= MaxHistInFlight
    /\ lastOp' = [op |-> "authResponse", kind |-> authReqs[i].kind, ok |-> TRUE]
    /\ UNCHANGED <<mounted, optReqs, loggedOut>>

\* a catch block that does not rethrow: handleSubmit goes on to navigate
AuthResolveFailNoRethrow(i, f) ==
    /\ i \in 1..Len(authReqs)
    /\ toast' = AuthErrorMessage(authReqs[i].kind, f)
    /\ authReqs' = RemoveAt(authReqs, i)
    /\ page' = "/dashboard"
    /\ IF page = "/"
       THEN LoginInit(isLogin', username', password', mobileNumber')
       ELSE UNCHANGED loginVars
    /\ lastOp' = [op |-> "authResponse", kind |-> authReqs[i].kind, ok |-> FALSE]
    /\ UNCHANGED <<mounted, authVars, dashVars, optReqs, histReqs, returned,
                   loggedOut>>

\* the i-th request settles with a non-OK response or a rejected fetch: the
\* catch block of login() or register() rethrows, handleSubmit swallows it
AuthResolveFail(i, f) ==
    /\ i \in 1..Len(authReqs)
    /\ toast' = AuthErrorMessage(authReqs[i].kind, f)
    /\ authReqs' = RemoveAt(authReqs, i)
    /\ lastOp' = [op |-> "authResponse", kind |-> authReqs[i].kind, ok |-> FALSE]
    /\ UNCHANGED <<page, mounted, authVars, loginVars, dashVars, optReqs,
                   histReqs, returned, loggedOut>>

\* handleLogout with a logout() that leaves the cached identity in place
handleLogoutKeepsStorage ==
    /\ mounted
    /\ page = "/dashboard"
    /\ user' = Null
    /\ toast' = "Logged out"
    /\ page' = "/"
    /\ DashboardInit(language', code', optimizedCode', flawReport', isLoading',
                     history')
    /\ LoginInit(isLogin', username', password', mobileNumber')
    /\ optReqs' = <<>>
    /\ histReqs' = <<>>
    /\ returned' = Null
    /\ loggedOut' = TRUE
    /\ lastOp' = [op |-> "handleLogout"]
    /\ UNCHANGED <<mounted, authReqs, storage>>

\* Dashboard.handleLogout: logout(), then navigate('/'); the Dashboard
\* unmounts and the Login form mounts. The /optimize and /history requests of
\* the unmounted Dashboard leave the model here: React drops the setState
\* calls of an unmounted component, so their responses can change no state.
handleLogout ==
    /\ mounted
    /\ page = "/dashboard"
    /\ user' = Null
    /\ storage' = NoItem
    /\ toast' = "Logged out"
    /\ page' = "/"
    /\ DashboardInit(language', code', optimizedCode', flawReport', isLoading',
                     history')
    /\ LoginInit(isLogin', username', password', mobileNumber')
    /\ optReqs' = <<>>
    /\ histReqs' = <<>>
    /\ returned' = Null
    /\ loggedOut' = TRUE
    /\ lastOp' = [op |-> "handleLogout"]
    /\ UNCHANGED <<mounted, authReqs>>

\* the page is loaded again: the JavaScript context is discarded with every
\* request it had in flight, local storage survives
Reload ==
    /\ mounted
    /\ mounted' = FALSE
    /\ user' = Null
    /\ authReqs' = <<>>
    /\ optReqs' = <<>>
    /\ histReqs' = <<>>
    /\ LoginInit(isLogin', username', password', mobileNumber')
    /\ DashboardInit(language', code', optimizedCode', flawReport', isLoading',
                     history')
    /\ toast' = NoToast
    /\ lastOp' = [op |-> "reload"]
    /\ UNCHANGED <<page, storage, returned, loggedOut>>

\* a mount effect that never finds the cached identity
MountUserIgnoresStorage(stored) == Null

\* what the AuthProvider mount effect leaves in `user`
MountUser(stored) == IF stored # NoItem THEN JSONparse(stored) ELSE Null

\* first commit: the Dashboard effect runs with user = null, then the
\* AuthProvider effect restores the cached identity, and the Dashboard effect
\* runs again for the changed user?.id
Mount ==
    /\ ~mounted
    /\ mounted' = TRUE
    /\ user' = MountUser(storage)
    /\ histReqs' = IF page = "/dashboard"
                   THEN fetchHistory(histReqs, user')
                   ELSE histReqs
    /\ toast' = NoToast
    /\ lastOp' = [op |-> "mount"]
    /\ UNCHANGED <<page, storage, authReqs, loginVars, dashVars, optReqs,
                   returned, loggedOut>>

(***************************************************************************)
(* Dashboard.                                                              *)
(***************************************************************************)
H1 == [id |-> 1, code_snippet |-> <<"x">>, optimized_code |-> "opt1",
       flaw_report |-> "flaw1", language |-> "javascript"]
H2 == [id |-> 2, code_snippet |-> <<" ", "z">>, optimized_code |-> "opt",
       flaw_report |-> Undefined, language |-> "python"]

\* bodies a GET /history/{id} can return
HistoryLists == {<<>>, <<H1>>, <<H2, H1>>}

\* what the user can put in the input editor and in the language selector
CodeInputs == {<<>>, <<" ">>, <<" ", "z">>}
Languages == {"python", "javascript"}

\* bodies an OK /optimize response can carry
OptimizeBodies == {[optimized_code |-> "opt", flaw_report |-> Undefined]}

\* a non-OK response, or a rejected fetch
OptimizeFailures == {"http", "network"}

OnDashboard == mounted /\ page = "/dashboard"

\* a button that stays enabled while a request is in flight
OptimizeDisabledIgnoresLoading(loading, c) == Trim(c) = <<>>

\* the `disabled` attribute of the Optimize button
OptimizeDisabled(loading, c) == loading \/ Trim(c) = <<>>

\* marks the attempts in flight as overtaken by a user action on the editors
Touch(reqs) == [i \in 1..Len(reqs) |-> [reqs[i] EXCEPT !.touched = TRUE]]

\* marks the attempts in flight as overtaken by the load of `item`
TouchLoaded(reqs, item) ==
    [i \in 1..Len(reqs) |-> [reqs[i] EXCEPT !.touched = TRUE, !.loaded = item]]

setCode(v) ==
    /\ OnDashboard
    /\ code' = v
    /\ optReqs' = Touch(optReqs)
    /\ toast' = NoToast
    /\ lastOp' = [op |-> "edit"]
    /\ UNCHANGED <<page, mounted, authVars, authReqs, loginVars, language,
                   optimizedCode, flawReport, isLoading, history, histReqs,
                   returned, loggedOut>>

setLanguage(v) ==
    /\ OnDashboard
    /\ language' = v
    /\ toast' = NoToast
    /\ lastOp' = [op |-> "edit"]
    /\ UNCHANGED <<page, mounted, authVars, authReqs, loginVars, code,
                   optimizedCode, flawReport, isLoading, history, optReqs,
                   histReqs, returned, loggedOut>>

\* !code, without the trim
IsBlankNoTrim(c) == c = <<>>

\* !code.trim()
IsBlank(c) == Trim(c) = <<>>

\* handleOptimize without the two calls that clear the output panels
handleOptimizeKeepsOutput ==
    /\ IF IsBlank(code)
       THEN /\ toast' = "Please enter some code to optimize"
            /\ UNCHANGED <<isLoading, optReqs>>
       ELSE /\ Len(optReqs) < MaxOptInFlight
            /\ isLoading' = TRUE
            /\ optReqs' = Append(optReqs,
                   [user |-> user, touched |-> FALSE, loaded |-> Null,
                    prior |-> [code |-> code, optimizedCode |-> optimizedCode,
                               flawReport |-> flawReport]])
            /\ toast' = NoToast
    /\ lastOp' = [op |-> "handleOptimize"]
    /\ UNCHANGED <<page, mounted, authVars, authReqs, loginVars, language, code,
                   optimizedCode, flawReport, history, histReqs, returned,
                   loggedOut>>

\* handleOptimize up to the await. The request carries two history fields:
\* `prior`, what the editors held when the attempt was submitted, `touched`,
\* whether the user has edited the input or loaded a history item since, and
\* `loaded`, the history item loaded last since (Null if none)
handleOptimize ==
    /\ IF IsBlank(code)
       THEN /\ toast' = "Please enter some code to optimize"
            /\ UNCHANGED <<isLoading, optimizedCode, flawReport, optReqs>>
       ELSE /\ Len(optReqs) < MaxOptInFlight
            /\ isLoading' = TRUE
            /\ optimizedCode' = ""
            /\ flawReport' = ""
            /\ optReqs' = Append(optReqs,
                   [user |-> user, touched |-> FALSE, loaded |-> Null,
                    prior |-> [code |-> code, optimizedCode |-> optimizedCode,
                               flawReport |-> flawReport]])
            /\ toast' = NoToast
    /\ lastOp' = [op |-> "handleOptimize"]
    /\ UNCHANGED <<page, mounted, authVars, authReqs, loginVars, language, code,
                   history, histReqs, returned, loggedOut>>

\* a click on the Optimize button, which the browser delivers only while the
\* button is enabled
ClickOptimize ==
    /\ OnDashboard
    /\ ~OptimizeDisabled(isLoading, code)
    /\ handleOptimize

\* handleOptimize called on blank input, whatever the button shows
CallHandleOptimize ==
    /\ OnDashboard
    /\ Trim(code) = <<>>
    /\ handleOptimize

\* the i-th /optimize request settles with an OK response: the rest of the
\* try block, then finally
OptimizeResolveOk(i, body) ==
    /\ i \in 1..Len(optReqs)
    /\ optimizedCode' = OrEmpty(body.optimized_code)
    /\ flawReport' = OrEmpty(body.flaw_report)
    /\ isLoading' = FALSE
    /\ histReqs' = fetchHistory(histReqs, optReqs[i].user)
    /\ Len(histReqs') <= MaxHistInFlight
    /\ toast' = "Code optimized successfully!"
    /\ optReqs' = RemoveAt(optReqs, i)
    /\ lastOp' = [op |-> "optimizeResponse", ok |-> TRUE, req |-> optReqs[i]]
    /\ UNCHANGED <<page, mounted, authVars, authReqs, loginVars, language, code,
                   history, returned, loggedOut>>

\* the catch block without the finally block: isLoading is never reset
OptimizeResolveFailNoFinally(i, f) ==
    /\ i \in 1..Len(optReqs)
    /\ toast' = "Failed to optimize code. Make sure the backend is running."
    /\ optReqs' = RemoveAt(optReqs, i)
    /\ lastOp' = [op |-> "optimizeResponse", ok |-> FALSE, req |-> optReqs[i]]
    /\ UNCHANGED <<page, mounted, authVars, authReqs, loginVars, language, code,
                   optimizedCode, flawReport, isLoading, history, histReqs,
                   returned, loggedOut>>

\* the i-th /optimize request settles with a non-OK response or a rejected
\* fetch: the catch block, then finally
OptimizeResolveFail(i, f) ==
    /\ i \in 1..Len(optReqs)
    /\ isLoading' = FALSE
    /\ toast' = "Failed to optimize code. Make sure the backend is running."
    /\ optReqs' = RemoveAt(optReqs, i)
    /\ lastOp' = [op |-> "optimizeResponse", ok |-> FALSE, req |-> optReqs[i]]
    /\ UNCHANGED <<page, mounted, authVars, authReqs, loginVars, language, code,
                   optimizedCode, flawReport, history, histReqs, returned,
                   loggedOut>>

\* the i-th history request settles with an OK response
HistoryResolveOk(i, data) ==
    /\ i \in 1..Len(histReqs)
    /\ history' = data
    /\ histReqs' = RemoveAt(histReqs, i)
    /\ toast' = NoToast
    /\ lastOp' = [op |-> "historyResponse", ok |-> TRUE]
    /\ UNCHANGED <<page, mounted, authVars, authReqs, loginVars, language, code,
                   optimizedCode, flawReport, isLoading, optReqs, returned,
                   loggedOut>>

\* the i-th history request settles with a non-OK response or a rejected fetch
HistoryResolveFail(i) ==
    /\ i \in 1..Len(histReqs)
    /\ histReqs' = RemoveAt(histReqs, i)
    /\ toast' = NoToast
    /\ lastOp' = [op |-> "historyResponse", ok |-> FALSE]
    /\ UNCHANGED <<page, mounted, authVars, authReqs, loginVars, dashVars,
                   optReqs, returned, loggedOut>>

\* loadHistoryItem without its setLanguage call
loadHistoryItemKeepsLanguage(item) ==
    /\ OnDashboard
    /\ code' = item.code_snippet
    /\ optimizedCode' = item.optimized_code
    /\ flawReport' = OrEmpty(item.flaw_report)
    /\ toast' = NoToast
    /\ optReqs' = TouchLoaded(optReqs, item)
    /\ lastOp' = [op |-> "loadHistoryItem", item |-> item,
                  before |-> [code |-> code, optimizedCode |-> optimizedCode,
                              language |-> language]]
    /\ UNCHANGED <<page, mounted, authVars, authReqs, loginVars, language,
                   isLoading, history, histReqs, returned, loggedOut>>

loadHistoryItem(item) ==
    /\ OnDashboard
    /\ code' = item.code_snippet
    /\ optimizedCode' = item.optimized_code
    /\ flawReport' = OrEmpty(item.flaw_report)
    /\ language' = item.language
    /\ toast' = NoToast
    /\ optReqs' = TouchLoaded(optReqs, item)
    /\ lastOp' = [op |-> "loadHistoryItem", item |-> item,
                  before |-> [code |-> code, optimizedCode |-> optimizedCode,
                              language |-> language]]
    /\ UNCHANGED <<page, mounted, authVars, authReqs, loginVars, isLoading,
                   history, histReqs, returned, loggedOut>>

(***************************************************************************)
(* Specifications.                                                         *)
(***************************************************************************)
Next ==
    \/ Mount /\ UNCHANGED serverVars
    \/ Reload /\ UNCHANGED serverVars
    \/ \E b \in BOOLEAN : SetIsLogin(b) /\ UNCHANGED serverVars
    \/ \E v \in Usernames : SetUsername(v) /\ UNCHANGED serverVars
    \/ \E v \in Passwords : SetPassword(v) /\ UNCHANGED serverVars
    \/ \E v \in Mobiles : SetMobileNumber(v) /\ UNCHANGED serverVars
    \/ handleSubmit /\ UNCHANGED serverVars
    \/ \E i \in 1..MaxAuthInFlight, data \in Users :
          AuthResolveOk(i, data) /\ UNCHANGED serverVars
    \/ \E i \in 1..MaxAuthInFlight, f \in AuthFailures :
          AuthResolveFail(i, f) /\ UNCHANGED serverVars
    \/ handleLogout /\ UNCHANGED serverVars
    \/ \E v \in CodeInputs : setCode(v) /\ UNCHANGED serverVars
    \/ \E v \in Languages : setLanguage(v) /\ UNCHANGED serverVars
    \/ ClickOptimize /\ UNCHANGED serverVars
    \/ \E i \in 1..MaxOptInFlight, body \in OptimizeBodies :
          OptimizeResolveOk(i, body) /\ UNCHANGED serverVars
    \/ \E i \in 1..MaxOptInFlight, f \in OptimizeFailures :
          OptimizeResolveFail(i, f) /\ UNCHANGED serverVars
    \/ \E i \in 1..MaxHistInFlight, data \in HistoryLists :
          HistoryResolveOk(i, data) /\ UNCHANGED serverVars
    \/ \E i \in 1..MaxHistInFlight : HistoryResolveFail(i) /\ UNCHANGED serverVars
    \/ \E k \in 1..Len(history) : loadHistoryItem(history[k]) /\ UNCHANGED serverVars

Spec == Init /\ [][Next]_vars

\* an /optimize request in flight settles
OptimizeSettles ==
    \/ \E i \in 1..MaxOptInFlight, body \in OptimizeBodies :
          OptimizeResolveOk(i, body) /\ UNCHANGED serverVars
    \/ \E i \in 1..MaxOptInFlight, f \in OptimizeFailures :
          OptimizeResolveFail(i, f) /\ UNCHANGED serverVars

\* the program when every /optimize fetch settles: the response, or the
\* rejection, of a fetch is handled by the event loop once it is there
SpecSettling == Spec /\ WF_vars(OptimizeSettles)

\* the same program with handleOptimize also exercised as a unit on an input
\* editor that is empty or holds only whitespace, where the disabled button
\* delivers no click
NextHandler ==
    \/ Next
    \/ CallHandleOptimize /\ UNCHANGED serverVars

SpecHandler == Init /\ [][NextHandler]_vars

(***************************************************************************)
(* The program with its back end. The back end is not part of src/; it is  *)
(* modelled from the specification: an OK /optimize writes one history     *)
(* entry for the user of the request, and GET /history/{id} returns the    *)
(* entries of that user, most recent first. A request is answered when it  *)
(* reaches the back end; its response may be delayed on the way back, so   *)
(* responses can arrive in any order.                                      *)
(***************************************************************************)
\* the n-th entry written for user `uid`; its fields other than id stand for
\* what the back end stored with it
ServerEntry(uid, n) == [(IF n % 2 = 1 THEN H1 ELSE H2) EXCEPT !.id = 10 * uid + n]

\* the body of GET /history/{uid} when `n` entries are stored for the user
ServerList(uid, n) == [k \in 1..n |-> ServerEntry(uid, n + 1 - k)]

\* the back end answers the history request the step has issued, if any, out
\* of the entries stored after the step; requests dropped with their
\* Dashboard take their answers with them
AnswerHistory ==
    histSnaps' =
        IF histReqs' = <<>> THEN <<>>
        ELSE IF Len(histReqs') = Len(histReqs) + 1
        THEN LET uid == histReqs'[Len(histReqs')].uid
             IN  Append(histSnaps, ServerList(uid, entries'[uid]))
        ELSE histSnaps

\* a step that writes no entry and leaves the Dashboard mounted
ServerIdle == UNCHANGED <<entries, created>> /\ AnswerHistory

\* a step that unmounts the Dashboard
ServerDashboardGone == UNCHANGED entries /\ created' = Null /\ AnswerHistory

\* the back end has handled the i-th /optimize request: one more entry for
\* the user of the request
WriteEntry(i) ==
    LET uid == UserId(lastOp'.req.user)
    IN  /\ uid \in UserIds
        /\ entries[uid] < MaxEntries
        /\ entries' = [entries EXCEPT ![uid] = @ + 1]
        /\ created' = [uid |-> uid, id |-> ServerEntry(uid, entries[uid] + 1).id]
        /\ AnswerHistory

NextServer ==
    \/ Mount /\ ServerIdle
    \/ Reload /\ ServerDashboardGone
    \/ \E b \in BOOLEAN : SetIsLogin(b) /\ ServerIdle
    \/ \E v \in Usernames : SetUsername(v) /\ ServerIdle
    \/ \E v \in Passwords : SetPassword(v) /\ ServerIdle
    \/ \E v \in Mobiles : SetMobileNumber(v) /\ ServerIdle
    \/ handleSubmit /\ ServerIdle
    \/ \E i \in 1..MaxAuthInFlight, data \in Users :
          AuthResolveOk(i, data) /\ ServerIdle
    \/ \E i \in 1..MaxAuthInFlight, f \in AuthFailures :
          AuthResolveFail(i, f) /\ ServerIdle
    \/ handleLogout /\ ServerDashboardGone
    \/ \E v \in CodeInputs : setCode(v) /\ ServerIdle
    \/ \E v \in Languages : setLanguage(v) /\ ServerIdle
    \/ ClickOptimize /\ ServerIdle
    \/ \E i \in 1..MaxOptInFlight, body \in OptimizeBodies :
          OptimizeResolveOk(i, body) /\ WriteEntry(i)
    \/ \E i \in 1..MaxOptInFlight, f \in OptimizeFailures :
          OptimizeResolveFail(i, f) /\ ServerIdle
    \/ \E i \in 1..Len(histSnaps) :
          /\ HistoryResolveOk(i, histSnaps[i])
          /\ histSnaps' = RemoveAt(histSnaps, i)
          /\ UNCHANGED <<entries, created>>
    \/ \E i \in 1..MaxHistInFlight :
          /\ HistoryResolveFail(i)
          /\ histSnaps' = RemoveAt(histSnaps, i)
          /\ created' = Null
          /\ UNCHANGED entries
    \/ \E k \in 1..Len(history) : loadHistoryItem(history[k]) /\ ServerIdle

SpecServer == Init /\ [][NextServer]_vars

(***************************************************************************)
(* Properties.                                                             *)
(***************************************************************************)
\* the last step handled the failure of an attempt that no user action on the
\* editors had overtaken
FailedUntouched ==
    /\ lastOp.op = "optimizeResponse"
    /\ ~lastOp.ok
    /\ ~lastOp.req.touched

\* C1: once logout() has run and the user has submitted no login or register
\* since, local storage holds no cached identity and a page load leaves
\* user = null, whatever requests were in flight when logout ran.
C1_LogoutKeepsIdentityAbsent ==
    loggedOut => /\ storage = NoItem
                 /\ (lastOp.op = "mount" => user = Null)

\* C2: a submit of the Login form with a password shorter than 6 characters,
\* in login or in register mode, puts no /login or /register request in flight.
C2_ShortPasswordIssuesNoRequest ==
    [][(lastOp'.op = "handleSubmit" /\ Len(password) < 6)
          => authReqs' = authReqs]_vars

C2_Witness ==
    /\ lastOp.op = "handleSubmit"
    /\ ~isLogin
    /\ Len(password) = 5
    /\ lastOp.errors = [NoErrors EXCEPT
           !.password = "Password must be at least 6 characters"]
    /\ authReqs = <<>>

\* C3: handleOptimize on an input editor that is empty or holds only
\* whitespace puts no /optimize request in flight and leaves isLoading, the
\* optimized output and the flaw report as they were.
C3_BlankCodeIssuesNoRequest ==
    [][(lastOp'.op = "handleOptimize" /\ Trim(code) = <<>>)
          => /\ optReqs' = optReqs
             /\ isLoading' = isLoading
             /\ optimizedCode' = optimizedCode
             /\ flawReport' = flawReport]_vars

C3_Witness ==
    /\ lastOp.op = "handleOptimize"
    /\ toast = "Please enter some code to optimize"
    /\ code = <<" ">>
    /\ optimizedCode # ""
    /\ flawReport # ""
    /\ optReqs = <<>>

\* C4: the Dashboard has at most one /optimize request in flight, and while
\* it has one, isLoading is true.
C4_OneOptimizeInFlight ==
    /\ Len(optReqs) <= 1
    /\ optReqs # <<>> => isLoading

C4_Witness ==
    /\ Len(optReqs) = 1
    /\ lastOp.op \in {"edit", "loadHistoryItem"}
    /\ Trim(code) # <<>>
    /\ isLoading

\* C5 as claimed: when an attempt fails, the input editor, the output editor
\* and the flaw report hold what they held just before the attempt was
\* submitted (the user having touched none of them meanwhile).
C5_FailureRetainsPriorContent ==
    FailedUntouched =>
        /\ code = lastOp.req.prior.code
        /\ optimizedCode = lastOp.req.prior.optimizedCode
        /\ flawReport = lastOp.req.prior.flawReport

\* C5 as amended: when an attempt fails and the user has touched no editor
\* since submitting it, the input editor holds what it held before the
\* attempt, and the output editor and the flaw report are empty.
C5_FailureLeavesInputAndEmptyOutput ==
    FailedUntouched =>
        /\ code = lastOp.req.prior.code
        /\ optimizedCode = ""
        /\ flawReport = ""

C5_Witness ==
    /\ FailedUntouched
    /\ lastOp.req.prior.optimizedCode # ""
    /\ lastOp.req.prior.flawReport # ""
    /\ ~isLoading

\* C6: every username in a /login or /register request has at least 3
\* characters.
C6_SentUsernameAtLeastThree ==
    \A i \in 1..Len(authReqs) : Len(authReqs[i].username) >= 3

\* C7: at most one /login or /register request is in flight at a time.
C7_OneAuthRequestInFlight == Len(authReqs) <= 1

\* C8: right after loadHistoryItem(item) the input editor holds
\* item.code_snippet, the output editor item.optimized_code and the language
\* selector item.language, whatever they held before.
C8_LoadHistoryItemPopulatesEditors ==
    lastOp.op = "loadHistoryItem" =>
        /\ code = lastOp.item.code_snippet
        /\ optimizedCode = lastOp.item.optimized_code
        /\ language = lastOp.item.language

C8_Witness ==
    /\ lastOp.op = "loadHistoryItem"
    /\ lastOp.before.code # lastOp.item.code_snippet
    /\ lastOp.before.optimizedCode # lastOp.item.optimized_code
    /\ lastOp.before.language # lastOp.item.language

\* C9: the handling of a failed /login or /register attempt changes neither
\* the in-memory user nor the cached identity, and does not navigate.
C9_FailedAuthChangesNothing ==
    [][(lastOp'.op = "authResponse" /\ ~lastOp'.ok)
          => /\ user' = user
             /\ storage' = storage
             /\ page' = page]_vars

C9_Witness ==
    /\ lastOp.op = "authResponse"
    /\ ~lastOp.ok
    /\ user = Null
    /\ storage = NoItem
    /\ page = "/"

\* C10: when the page is loaded again after a successful login or register,
\* with no logout in between, the mount effect puts the user record the
\* server returned back in `user`, and no /login or /register request is in
\* flight.
C10_ReloadRestoresSession ==
    (lastOp.op = "mount" /\ returned # Null)
        => /\ user = returned
           /\ authReqs = <<>>

C10_Witness ==
    /\ lastOp.op = "mount"
    /\ returned # Null
    /\ user = returned
    /\ page = "/dashboard"

\* the number of /login requests in flight
LoginsInFlight(reqs) == Cardinality({i \in 1..Len(reqs) : reqs[i].kind = "login"})

\* C11: the handling of an OK /register response sets the in-memory user to
\* the returned record, caches that record in local storage and navigates to
\* the dashboard, and puts no /login request in flight.
C11_RegisterLogsIn ==
    [][(lastOp'.op = "authResponse" /\ lastOp'.kind = "register" /\ lastOp'.ok)
          => /\ returned' \in Users
             /\ user' = returned'
             /\ storage' = JSONstringify(returned')
             /\ page' = "/dashboard"
             /\ LoginsInFlight(authReqs') <= LoginsInFlight(authReqs)]_vars

C11_Witness ==
    /\ lastOp.op = "authResponse"
    /\ lastOp.kind = "register"
    /\ lastOp.ok
    /\ user = returned
    /\ user # Null
    /\ authReqs = <<>>
    /\ page = "/dashboard"

\* C13: when every /optimize fetch settles, an attempt that is submitting
\* (isLoading) leads to a state where isLoading is false and the Optimize
\* button is enabled unless the input is blank; and the step that handles the
\* settled fetch, OK or not, is one that leaves isLoading false.
C13_SubmittingReturnsToIdle ==
    /\ isLoading ~> (~isLoading /\ (Trim(code) # <<>> => ~OptimizeDisabled(isLoading, code)))
    /\ [][lastOp'.op = "optimizeResponse" => ~isLoading']_vars

C13_Witness ==
    /\ lastOp.op = "optimizeResponse"
    /\ ~lastOp.ok
    /\ ~isLoading
    /\ Trim(code) # <<>>
    /\ ~OptimizeDisabled(isLoading, code)

\* C14: once the AuthProvider mount effect has run, the in-memory user is
\* non-null exactly when local storage holds a cached identity, and the cached
\* identity is the text of that same user record.
C14_UserMatchesCachedIdentity ==
    mounted => /\ (user # Null <=> storage # NoItem)
               /\ (user # Null => storage = JSONstringify(user))

C14_Witness ==
    /\ mounted
    /\ loggedOut
    /\ lastOp.op = "authResponse"
    /\ lastOp.ok
    /\ user # Null
    /\ storage = JSONstringify(user)

\* C15: a history item loaded while an /optimize request is in flight stays
\* on display when that request settles: after the step that handles the
\* response, the output editor and the flaw report still hold the item's
\* optimized_code and flaw_report. And a step on the dashboard that is neither
\* a submit, a history load nor the handling of an /optimize response leaves
\* the two panels as they are.
C15_LoadedItemStaysOnDisplay ==
    [][/\ (lastOp'.op = "optimizeResponse" /\ lastOp'.req.loaded # Null)
            => /\ optimizedCode' = lastOp'.req.loaded.optimized_code
               /\ flawReport' = OrEmpty(lastOp'.req.loaded.flaw_report)
       /\ (/\ page = "/dashboard"
           /\ page' = "/dashboard"
           /\ mounted'
           /\ lastOp'.op \notin {"handleOptimize", "loadHistoryItem", "optimizeResponse"})
            => UNCHANGED <<optimizedCode, flawReport>>]_vars

\* C12: on the Dashboard of the user an OK /optimize wrote an entry for, once
\* no history fetch is outstanding and none has failed since, the displayed
\* history holds that entry.
C12_HistoryShowsNewEntry ==
    (/\ OnDashboard
     /\ created # Null
     /\ UserId(user) = created.uid
     /\ histReqs = <<>>)
        => \E k \in 1..Len(history) : history[k].id = created.id

====
